---- MODULE Spec2Model ----
(***************************************************************************)
(* Model of github.com/Ehsan-Eghbali/common:                               *)
(*   logutil  - structured logging helpers over logrus: a process-wide     *)
(*              debug flag, a de-duplication map guarded by one mutex, and *)
(*              ten logging operations;                                    *)
(*   response - the two JSON HTTP responders.                              *)
(* Goroutines are the threads of the model.  A goroutine's call to a       *)
(* logging operation is a sequence of steps (pc); the records a call hands *)
(* to the logrus sink are kept in out[t] until the goroutine's next call.  *)
(***************************************************************************)
EXTENDS Integers, Sequences, FiniteSets

\* ------------------------------------------------------------------ bounds
NumThreads == 2

\* the most keys a map handed to mergeFields holds
MaxKeys == 2

\* ------------------------------------------------------------------ values
Threads == 1 .. NumThreads

Events == {"E1", "E2"}

CorrelationIDs == {"c1"}

\* error values: the nil interface, and errors.New("boom")
NilErr == [isNil |-> TRUE, msg |-> ""]

Boom == [isNil |-> FALSE, msg |-> "boom"]

Errs == {NilErr, Boom}

\* map[string]interface{}: a function from keys to values.  A nil map and an
\* empty map range over nothing alike.
NilMap == [k \in {} |-> ""]

\* the additionalFields / LogFields.Additional a caller may pass
Exts == {NilMap, [user |-> "u1"], [user |-> "u1", status |-> "override"]}

\* time.Now().UTC().Format(time.RFC3339), an opaque token
Timestamp == "now"

Unlocked == 0

NoCall == [op |-> "none", correlationID |-> "", event |-> "", err |-> NilErr, fields |-> NilMap]

OnceOps == {"LogOnce", "LogSuccess", "LogOnceNew", "LogSuccessNew"}

GatedOps == {"LogRelationalStart", "LogRelationalEnd", "LogRelationalStartNew", "LogRelationalEndNew"}

ErrorOps == {"LogError", "LogErrorNew"}

VARIABLES
    debugMode,     \* logutil.debugMode
    loggedEvents,  \* the keys of logutil.loggedEvents (every stored value is true)
    mutex,         \* logutil.mutex: Unlocked, or the goroutine holding it
    pc,            \* per goroutine: where its current call stands
    call,          \* per goroutine: the operation called and its arguments
    flagRead,      \* per goroutine: the value of debugMode its call read
    out,           \* per goroutine: the records its call handed to logrus
    ret,           \* per goroutine: "none", or the *logrus.Entry result: "nil" / "entry"
    onceEmitted,   \* per event name: records emitted by the once-only operations
    crashed,       \* an unrecovered panic has terminated the process
    hpc,           \* response: where the responder's call stands
    req,           \* response: the responder called and its arguments
    stream,        \* response: what the call did to its http.ResponseWriter, in order
    mBase,         \* mergeFields alone: the baseFields argument as passed
    mExt,          \* mergeFields alone: the additionalFields argument
    merged         \* mergeFields alone: baseFields as each call so far left it

logVars == <<debugMode, loggedEvents, mutex, pc, call, flagRead, out, ret, onceEmitted, crashed>>

httpVars == <<hpc, req, stream>>

mergeVars == <<mBase, mExt, merged>>

vars == <<logVars, httpVars, mergeVars>>

\* ------------------------------------------------------------ pure helpers

\* err.Error() of a non-nil error
ErrorOf(err) == err.msg

\* faulty variant: a key the base already holds keeps the base's value
mergeFieldsBaseWins(baseFields, additionalFields) ==
    [k \in (DOMAIN baseFields) \cup (DOMAIN additionalFields) |->
        IF k \in DOMAIN baseFields THEN baseFields[k] ELSE additionalFields[k]]

\* mergeFields: for k, v := range additionalFields { baseFields[k] = v };
\* the value is baseFields after the loop.
mergeFields(baseFields, additionalFields) ==
    [k \in (DOMAIN baseFields) \cup (DOMAIN additionalFields) |->
        IF k \in DOMAIN additionalFields THEN additionalFields[k] ELSE baseFields[k]]

\* logrus Entry.WithField: a NEW entry holding the old data plus k = v
WithField(entry, k, v) == mergeFields(entry, [x \in {k} |-> v])

RECURSIVE WithAll(_, _, _)
WithAll(entry, additionalFields, keys) ==
    IF keys = {} THEN entry
    ELSE LET k == CHOOSE x \in keys : TRUE
         IN WithAll(WithField(entry, k, additionalFields[k]), additionalFields, keys \ {k})

\* mergeFieldsNew: the loop rebinds its own parameter `entry` to the entries
\* WithField returns; the caller's entry is what the caller logs afterwards.
mergeFieldsNew(entry, additionalFields) ==
    LET local == WithAll(entry, additionalFields, DOMAIN additionalFields)
    IN entry

\* a record handed to the logrus sink
Record(level, msg, fields) == [level |-> level, msg |-> msg, fields |-> fields]

\* ------------------------------------------------- the records of each call
\* c is the call: [op, correlationID, event, err, fields]; for the struct
\* variants c.fields is the Additional map of the LogFields argument.

LogFields(additional) ==
    [Event |-> "", CorrelationID |-> "", Timestamp |-> "", Status |-> "", Error |-> "",
     Additional |-> additional]

LogRelationalStartRecord(c) ==
    LET fields == [event |-> c.event, correlationID |-> c.correlationID,
                   timestamp |-> Timestamp, status |-> "started"]
    IN Record("info", "Event started", mergeFields(fields, c.fields))

LogRelationalEndRecord(c) ==
    LET fields == [event |-> c.event, correlationID |-> c.correlationID,
                   timestamp |-> Timestamp, status |-> "completed"]
    IN Record("info", "Event completed", mergeFields(fields, c.fields))

LogErrorRecord(c) ==
    LET fields == [event |-> c.event, correlationID |-> c.correlationID,
                   timestamp |-> Timestamp, error |-> ErrorOf(c.err), status |-> "error"]
    IN Record("error", "Error occurred", mergeFields(fields, c.fields))

LogOnceRecord(c) ==
    LET fields == [event |-> c.event, timestamp |-> Timestamp]
        withErr == IF ~c.err.isNil THEN mergeFields(fields, [error |-> ErrorOf(c.err)])
                   ELSE fields
    IN Record("info", "Event logged once", mergeFields(withErr, c.fields))

LogSuccessRecord(c) ==
    LET fields == [event |-> c.event, timestamp |-> Timestamp]
    IN Record("info", "Event logged successfully", mergeFields(fields, c.fields))

LogRelationalStartNewRecord(c) ==
    LET fields == [LogFields(c.fields) EXCEPT !.Event = c.event,
                       !.CorrelationID = c.correlationID, !.Timestamp = Timestamp,
                       !.Status = "started"]
        entry == [event |-> fields.Event, correlationID |-> fields.CorrelationID,
                  timestamp |-> fields.Timestamp, status |-> fields.Status]
    IN Record("info", "Event started", mergeFieldsNew(entry, fields.Additional))

LogRelationalEndNewRecord(c) ==
    LET fields == [LogFields(c.fields) EXCEPT !.Event = c.event,
                       !.CorrelationID = c.correlationID, !.Timestamp = Timestamp,
                       !.Status = "completed"]
        entry == [event |-> fields.Event, correlationID |-> fields.CorrelationID,
                  timestamp |-> fields.Timestamp, status |-> fields.Status]
    IN Record("info", "Event completed", mergeFieldsNew(entry, fields.Additional))

LogErrorNewRecord(c) ==
    LET fields == [LogFields(c.fields) EXCEPT !.Event = c.event,
                       !.CorrelationID = c.correlationID, !.Timestamp = Timestamp,
                       !.Error = ErrorOf(c.err), !.Status = "error"]
        entry == [event |-> fields.Event, correlationID |-> fields.CorrelationID,
                  timestamp |-> fields.Timestamp, error |-> fields.Error,
                  status |-> fields.Status]
    IN Record("error", "Error occurred", mergeFieldsNew(entry, fields.Additional))

LogOnceNewRecord(c) ==
    LET f0 == [LogFields(c.fields) EXCEPT !.Event = c.event, !.Timestamp = Timestamp]
        fields == IF ~c.err.isNil THEN [f0 EXCEPT !.Error = ErrorOf(c.err)] ELSE f0
        entry == [event |-> fields.Event, timestamp |-> fields.Timestamp]
    IN Record("info", "Event logged once", mergeFieldsNew(entry, fields.Additional))

LogSuccessNewRecord(c) ==
    LET fields == [LogFields(c.fields) EXCEPT !.Event = c.event, !.Timestamp = Timestamp]
        entry == [event |-> fields.Event, timestamp |-> fields.Timestamp]
    IN Record("info", "Event logged successfully", mergeFieldsNew(entry, fields.Additional))

\* the record call c emits, by operation
RecordOf(c) ==
    CASE c.op = "LogRelationalStart"    -> LogRelationalStartRecord(c)
      [] c.op = "LogRelationalEnd"      -> LogRelationalEndRecord(c)
      [] c.op = "LogError"              -> LogErrorRecord(c)
      [] c.op = "LogOnce"               -> LogOnceRecord(c)
      [] c.op = "LogSuccess"            -> LogSuccessRecord(c)
      [] c.op = "LogRelationalStartNew" -> LogRelationalStartNewRecord(c)
      [] c.op = "LogRelationalEndNew"   -> LogRelationalEndNewRecord(c)
      [] c.op = "LogErrorNew"           -> LogErrorNewRecord(c)
      [] c.op = "LogOnceNew"            -> LogOnceNewRecord(c)
      [] c.op = "LogSuccessNew"         -> LogSuccessNewRecord(c)

Call(op, cid, ev, err, ext) ==
    [op |-> op, correlationID |-> cid, event |-> ev, err |-> err, fields |-> ext]

\* ----------------------------------------------------------------- actions
InitLog ==
    /\ debugMode = FALSE
    /\ loggedEvents = {}
    /\ mutex = Unlocked
    /\ pc = [t \in Threads |-> "idle"]
    /\ call = [t \in Threads |-> NoCall]
    /\ flagRead = [t \in Threads |-> FALSE]
    /\ out = [t \in Threads |-> << >>]
    /\ ret = [t \in Threads |-> "none"]
    /\ onceEmitted = [e \in Events |-> 0]
    /\ crashed = FALSE

\* goroutine t is between calls, in a running process
Ready(t) == ~crashed /\ pc[t] \in {"idle", "done"}

\* SetDebugMode(debug), called by goroutine t: an unsynchronised write
SetDebugMode(t, debug) ==
    /\ Ready(t)
    /\ debugMode' = debug
    /\ UNCHANGED <<loggedEvents, mutex, pc, call, flagRead, out, ret, onceEmitted, crashed, httpVars, mergeVars>>

\* faulty variant: the gate also consults the de-duplication map
DebugGateDedup(c) == debugMode /\ c.event \notin loggedEvents

\* `if !debugMode { return nil }`: whether the read lets the call log
DebugGate(c) == debugMode

\* The debug-gated operations, up to the read of debugMode: return nil, or go
\* on to build and log the entry.
GatedCall(t, c) ==
    /\ Ready(t)
    /\ call' = [call EXCEPT ![t] = c]
    /\ flagRead' = [flagRead EXCEPT ![t] = debugMode]
    /\ out' = [out EXCEPT ![t] = << >>]
    /\ IF DebugGate(c)
       THEN /\ pc' = [pc EXCEPT ![t] = "emit"]
            /\ ret' = [ret EXCEPT ![t] = "none"]
       ELSE /\ pc' = [pc EXCEPT ![t] = "done"]
            /\ ret' = [ret EXCEPT ![t] = "nil"]
    /\ UNCHANGED <<debugMode, loggedEvents, mutex, onceEmitted, crashed, httpVars, mergeVars>>

LogRelationalStart(t, cid, ev, ext) ==
    GatedCall(t, Call("LogRelationalStart", cid, ev, NilErr, ext))

LogRelationalEnd(t, cid, ev, ext) ==
    GatedCall(t, Call("LogRelationalEnd", cid, ev, NilErr, ext))

LogRelationalStartNew(t, cid, ev, ext) ==
    GatedCall(t, Call("LogRelationalStartNew", cid, ev, NilErr, ext))

LogRelationalEndNew(t, cid, ev, ext) ==
    GatedCall(t, Call("LogRelationalEndNew", cid, ev, NilErr, ext))

\* entry.Info(...); return entry
GatedEmit(t) ==
    /\ ~crashed
    /\ pc[t] = "emit"
    /\ out' = [out EXCEPT ![t] = Append(out[t], RecordOf(call[t]))]
    /\ ret' = [ret EXCEPT ![t] = "entry"]
    /\ pc' = [pc EXCEPT ![t] = "done"]
    /\ UNCHANGED <<debugMode, loggedEvents, mutex, call, flagRead, onceEmitted, crashed, httpVars, mergeVars>>

\* faulty variant: error logging gated by the debug flag like start/end logging
ErrorCallGated(t, c) ==
    /\ Ready(t)
    /\ call' = [call EXCEPT ![t] = c]
    /\ flagRead' = [flagRead EXCEPT ![t] = FALSE]
    /\ ret' = [ret EXCEPT ![t] = "none"]
    /\ IF c.err.isNil
       THEN /\ crashed' = TRUE
            /\ pc' = [pc EXCEPT ![t] = "panicked"]
            /\ out' = [out EXCEPT ![t] = << >>]
       ELSE /\ crashed' = crashed
            /\ pc' = [pc EXCEPT ![t] = "done"]
            /\ out' = [out EXCEPT ![t] = IF debugMode THEN << RecordOf(c) >> ELSE << >>]
    /\ UNCHANGED <<debugMode, loggedEvents, mutex, onceEmitted, httpVars, mergeVars>>

\* LogError / LogErrorNew: err.Error() on a nil error is a nil dereference, a
\* run-time panic nothing recovers; otherwise the entry is logged at Error level.
ErrorCall(t, c) ==
    /\ Ready(t)
    /\ call' = [call EXCEPT ![t] = c]
    /\ flagRead' = [flagRead EXCEPT ![t] = FALSE]
    /\ ret' = [ret EXCEPT ![t] = "none"]
    /\ IF c.err.isNil
       THEN /\ crashed' = TRUE
            /\ pc' = [pc EXCEPT ![t] = "panicked"]
            /\ out' = [out EXCEPT ![t] = << >>]
       ELSE /\ crashed' = crashed
            /\ pc' = [pc EXCEPT ![t] = "done"]
            /\ out' = [out EXCEPT ![t] = << RecordOf(c) >>]
    /\ UNCHANGED <<debugMode, loggedEvents, mutex, onceEmitted, httpVars, mergeVars>>

LogError(t, cid, ev, err, ext) == ErrorCall(t, Call("LogError", cid, ev, err, ext))

LogErrorNew(t, cid, ev, err, ext) == ErrorCall(t, Call("LogErrorNew", cid, ev, err, ext))

\* The once-only operations: the call is made and waits for the mutex.
OnceCall(t, c) ==
    /\ Ready(t)
    /\ call' = [call EXCEPT ![t] = c]
    /\ flagRead' = [flagRead EXCEPT ![t] = FALSE]
    /\ out' = [out EXCEPT ![t] = << >>]
    /\ ret' = [ret EXCEPT ![t] = "none"]
    /\ pc' = [pc EXCEPT ![t] = "lock"]
    /\ UNCHANGED <<debugMode, loggedEvents, mutex, onceEmitted, crashed, httpVars, mergeVars>>

LogOnce(t, ev, err, ext) == OnceCall(t, Call("LogOnce", "", ev, err, ext))

LogSuccess(t, ev, ext) == OnceCall(t, Call("LogSuccess", "", ev, NilErr, ext))

LogOnceNew(t, ev, err, ext) == OnceCall(t, Call("LogOnceNew", "", ev, err, ext))

LogSuccessNew(t, ev, ext) == OnceCall(t, Call("LogSuccessNew", "", ev, NilErr, ext))

\* faulty variant: Lock never waits
MutexFreeAlways == TRUE

\* mutex.Lock(): blocks while another goroutine holds the mutex
MutexFree == mutex = Unlocked

Lock(t) ==
    /\ ~crashed
    /\ pc[t] = "lock"
    /\ MutexFree
    /\ mutex' = t
    /\ pc' = [pc EXCEPT ![t] = "check"]
    /\ UNCHANGED <<debugMode, loggedEvents, call, flagRead, out, ret, onceEmitted, crashed, httpVars, mergeVars>>

\* faulty variant: the lookup ignores the key
AlreadyLoggedAnyKey(logKey) == loggedEvents # {}

\* loggedEvents[logKey]
AlreadyLogged(logKey) == logKey \in loggedEvents

\* `if loggedEvents[logKey] { return }`
Check(t) ==
    /\ ~crashed
    /\ pc[t] = "check"
    /\ pc' = [pc EXCEPT ![t] = IF AlreadyLogged(call[t].event) THEN "unlock" ELSE "log"]
    /\ UNCHANGED <<debugMode, loggedEvents, mutex, call, flagRead, out, ret, onceEmitted, crashed, httpVars, mergeVars>>

\* build the fields and log at Info level
Log(t) ==
    /\ ~crashed
    /\ pc[t] = "log"
    /\ out' = [out EXCEPT ![t] = Append(out[t], RecordOf(call[t]))]
    /\ onceEmitted' = [onceEmitted EXCEPT ![call[t].event] = @ + 1]
    /\ pc' = [pc EXCEPT ![t] = "mark"]
    /\ UNCHANGED <<debugMode, loggedEvents, mutex, call, flagRead, ret, crashed, httpVars, mergeVars>>

\* faulty variant: the insert replaces the map
MarkLoggedReset(logKey) == {logKey}

\* loggedEvents[logKey] = true
MarkLogged(logKey) == loggedEvents \cup {logKey}

Mark(t) ==
    /\ ~crashed
    /\ pc[t] = "mark"
    /\ loggedEvents' = MarkLogged(call[t].event)
    /\ pc' = [pc EXCEPT ![t] = "unlock"]
    /\ UNCHANGED <<debugMode, mutex, call, flagRead, out, ret, onceEmitted, crashed, httpVars, mergeVars>>

\* faulty variant: no defer: the early return leaves the mutex locked
UnlockAfterLogOnly(t) ==
    /\ ~crashed
    /\ pc[t] = "unlock"
    /\ mutex' = IF out[t] = << >> THEN mutex ELSE Unlocked
    /\ pc' = [pc EXCEPT ![t] = "done"]
    /\ UNCHANGED <<debugMode, loggedEvents, call, flagRead, out, ret, onceEmitted, crashed, httpVars, mergeVars>>

\* the deferred mutex.Unlock(), on both return paths
Unlock(t) ==
    /\ ~crashed
    /\ pc[t] = "unlock"
    /\ mutex' = Unlocked
    /\ pc' = [pc EXCEPT ![t] = "done"]
    /\ UNCHANGED <<debugMode, loggedEvents, call, flagRead, out, ret, onceEmitted, crashed, httpVars, mergeVars>>


\* --------------------------------------------------------- package response
StatusCodes == {200, 404, 500}

Messages == {"not found", "oops"}

TraceIDs == {"abc123", "t2"}

Missing == [isNil |-> FALSE, msg |-> "missing"]

HttpErrs == {NilErr, Missing}

Payloads == {[message |-> "pong"], [id |-> "7"], NilMap}

NoReq == [op |-> "none", statusCode |-> 0, message |-> "", err |-> NilErr, traceID |-> "", data |-> NilMap]

\* type ErrResponse struct
ErrResponse(code, reason, message, errorCode) ==
    [Code |-> code, Reason |-> reason, Message |-> message, ErrorCode |-> errorCode]

\* encoding/json on ErrResponse: each field under the name of its json tag
MarshalErrResponse(r) ==
    [code |-> r.Code, reason |-> r.Reason, message |-> r.Message, error_code |-> r.ErrorCode]

\* json.NewEncoder(w).Encode(v): one Write of v's JSON text
Encode(v) == [ev |-> "Write", body |-> v]

InitHttp ==
    /\ hpc = "idle"
    /\ req = NoReq
    /\ stream = << >>

\* a responder is called with a fresh http.ResponseWriter
RespondWithError(statusCode, message, err, traceID) ==
    /\ hpc \in {"idle", "done"}
    /\ req' = [op |-> "RespondWithError", statusCode |-> statusCode, message |-> message,
               err |-> err, traceID |-> traceID, data |-> NilMap]
    /\ stream' = << >>
    /\ hpc' = "header"
    /\ UNCHANGED <<logVars, mergeVars>>

RespondWithSuccess(statusCode, data) ==
    /\ hpc \in {"idle", "done"}
    /\ req' = [op |-> "RespondWithSuccess", statusCode |-> statusCode, message |-> "",
               err |-> NilErr, traceID |-> "", data |-> data]
    /\ stream' = << >>
    /\ hpc' = "header"
    /\ UNCHANGED <<logVars, mergeVars>>

\* faulty variant: the header is set after the status line went out
SetHeaderAfterStatus ==
    /\ hpc = "header"
    /\ stream' = stream \o << [ev |-> "WriteHeader", code |-> req.statusCode],
                              [ev |-> "Header.Set", key |-> "Content-Type",
                               value |-> "application/json"] >>
    /\ hpc' = "body"
    /\ UNCHANGED <<req, logVars, mergeVars>>

\* w.Header().Set("Content-Type", "application/json")
SetHeader ==
    /\ hpc = "header"
    /\ stream' = Append(stream, [ev |-> "Header.Set", key |-> "Content-Type",
                                 value |-> "application/json"])
    /\ hpc' = "status"
    /\ UNCHANGED <<req, logVars, mergeVars>>

\* w.WriteHeader(statusCode)
WriteHeader ==
    /\ hpc = "status"
    /\ stream' = Append(stream, [ev |-> "WriteHeader", code |-> req.statusCode])
    /\ hpc' = "body"
    /\ UNCHANGED <<req, logVars, mergeVars>>

\* the body: RespondWithError builds ErrResponse first, and err.Error() on a
\* nil error panics there, after the status line went out
WriteBody ==
    /\ hpc = "body"
    /\ UNCHANGED <<req, logVars, mergeVars>>
    /\ IF req.op = "RespondWithError"
       THEN IF req.err.isNil
            THEN hpc' = "panicked" /\ stream' = stream
            ELSE LET response == ErrResponse(req.statusCode, ErrorOf(req.err),
                                             req.message, req.traceID)
                 IN /\ stream' = Append(stream, Encode([error |-> MarshalErrResponse(response)]))
                    /\ hpc' = "done"
       ELSE /\ stream' = Append(stream, Encode(req.data))
            /\ hpc' = "done"

\* ------------------------------------------------------- mergeFields, alone
MergeKeys == {"event", "status", "error", "user"}

MergeValues == {"a", "b"}

\* the maps of at most MaxKeys keys
MergeMaps ==
    UNION {[ks -> MergeValues] : ks \in {x \in SUBSET MergeKeys : Cardinality(x) <= MaxKeys}}

InitMergeIdle ==
    /\ mBase = NilMap
    /\ mExt = NilMap
    /\ merged = << >>

InitMerge ==
    /\ InitLog
    /\ InitHttp
    /\ mBase \in MergeMaps
    /\ mExt \in MergeMaps
    /\ merged = << >>

\* the call mergeFields(baseFields, additionalFields); merged holds the base
\* map as the call leaves it
Merge ==
    /\ merged = << >>
    /\ merged' = << mergeFields(mBase, mExt) >>
    /\ UNCHANGED <<mBase, mExt, logVars, httpVars>>

\* merging again, nothing this time: mergeFields(baseFields, nil)
MergeNil ==
    /\ Len(merged) = 1
    /\ merged' = Append(merged, mergeFields(merged[1], NilMap))
    /\ UNCHANGED <<mBase, mExt, logVars, httpVars>>

\* ------------------------------------------------------- the specifications
Init == InitLog /\ InitHttp /\ InitMergeIdle

\* Spec: goroutines calling the once-only and the error-logging operations
\* and SetDebugMode concurrently, with no extension fields.
Next ==
    \E t \in Threads :
        \/ \E debug \in BOOLEAN : SetDebugMode(t, debug)
        \/ \E cid \in CorrelationIDs, ev \in Events, err \in Errs : LogError(t, cid, ev, err, NilMap)
        \/ \E cid \in CorrelationIDs, ev \in Events, err \in Errs : LogErrorNew(t, cid, ev, err, NilMap)
        \/ \E ev \in Events : LogOnce(t, ev, Boom, NilMap)
        \/ \E ev \in Events : LogSuccess(t, ev, NilMap)
        \/ \E ev \in Events : LogOnceNew(t, ev, Boom, NilMap)
        \/ \E ev \in Events : LogSuccessNew(t, ev, NilMap)
        \/ Lock(t)
        \/ Check(t)
        \/ Log(t)
        \/ Mark(t)
        \/ Unlock(t)

Spec == Init /\ [][Next]_vars

\* SpecCalls: one goroutine calling every logging operation with every
\* argument, while any goroutine may call SetDebugMode at any moment.
Caller == CHOOSE t \in Threads : TRUE

NextCalls ==
       \/ \E u \in Threads, debug \in BOOLEAN : SetDebugMode(u, debug)
       \/ \E cid \in CorrelationIDs, ev \in Events, ext \in Exts : LogRelationalStart(Caller, cid, ev, ext)
       \/ \E cid \in CorrelationIDs, ev \in Events, ext \in Exts : LogRelationalEnd(Caller, cid, ev, ext)
       \/ \E cid \in CorrelationIDs, ev \in Events, ext \in Exts : LogRelationalStartNew(Caller, cid, ev, ext)
       \/ \E cid \in CorrelationIDs, ev \in Events, ext \in Exts : LogRelationalEndNew(Caller, cid, ev, ext)
       \/ \E cid \in CorrelationIDs, ev \in Events, err \in Errs, ext \in Exts : LogError(Caller, cid, ev, err, ext)
       \/ \E cid \in CorrelationIDs, ev \in Events, err \in Errs, ext \in Exts : LogErrorNew(Caller, cid, ev, err, ext)
       \/ \E ev \in Events, err \in Errs, ext \in Exts : LogOnce(Caller, ev, err, ext)
       \/ \E ev \in Events, ext \in Exts : LogSuccess(Caller, ev, ext)
       \/ \E ev \in Events, err \in Errs, ext \in Exts : LogOnceNew(Caller, ev, err, ext)
       \/ \E ev \in Events, ext \in Exts : LogSuccessNew(Caller, ev, ext)
       \/ GatedEmit(Caller)
       \/ Lock(Caller)
       \/ Check(Caller)
       \/ Log(Caller)
       \/ Mark(Caller)
       \/ Unlock(Caller)

SpecCalls == Init /\ [][NextCalls]_vars

\* SpecLive: the concurrent callers of the once-only operations, every
\* goroutine that can take a step eventually scheduled, and a goroutine
\* waiting in mutex.Lock() eventually handed the mutex (sync.Mutex hands a
\* starved waiter the mutex directly).
NextLive ==
    \E t \in Threads :
        \/ \E ev \in Events : LogOnce(t, ev, NilErr, NilMap)
        \/ \E ev \in Events : LogSuccess(t, ev, NilMap)
        \/ \E ev \in Events : LogOnceNew(t, ev, NilErr, NilMap)
        \/ \E ev \in Events : LogSuccessNew(t, ev, NilMap)
        \/ Lock(t)
        \/ Check(t)
        \/ Log(t)
        \/ Mark(t)
        \/ Unlock(t)

Fairness ==
    \A t \in Threads :
        /\ WF_vars(Check(t) \/ Log(t) \/ Mark(t) \/ Unlock(t))
        /\ SF_vars(Lock(t))

SpecLive == Init /\ [][NextLive]_vars /\ Fairness

\* SpecHttp: the two responders, one call at a time.
NextHttp ==
       \/ \E statusCode \in StatusCodes, message \in Messages, err \in HttpErrs, traceID \in TraceIDs :
            RespondWithError(statusCode, message, err, traceID)
       \/ \E statusCode \in StatusCodes, data \in Payloads : RespondWithSuccess(statusCode, data)
       \/ SetHeader
       \/ WriteHeader
       \/ WriteBody

SpecHttp == Init /\ [][NextHttp]_vars

\* SpecMerge: mergeFields on every pair of maps of at most MaxKeys keys.
NextMerge == Merge \/ MergeNil

SpecMerge == InitMerge /\ [][NextMerge]_vars

\* ----------------------------------------------------------------- claims
OncePcs == {"lock", "check", "log", "mark", "unlock"}

\* holding the mutex: from the membership check to the deferred Unlock
Critical == {"check", "log", "mark", "unlock"}

Returned(t) == pc[t] = "done"

\* C1: however many once-only calls (LogOnce, LogSuccess, LogOnceNew,
\* LogSuccessNew, in any mix and interleaving) name event E, at no point has
\* more than one record been emitted for E, and once any of them has returned
\* exactly one has; the record carries E as its event.
C1_ExactlyOnce ==
    \A e \in Events :
        /\ onceEmitted[e] <= 1
        /\ \A t \in Threads :
            (Returned(t) /\ call[t].op \in OnceOps /\ call[t].event = e) =>
                /\ onceEmitted[e] = 1
                /\ Len(out[t]) <= 1
                /\ \A i \in 1 .. Len(out[t]) : out[t][i].fields.event = e

\* two different once-only operations were called with one event by two
\* goroutines; one emitted and the other returned without emitting
C1_Witness ==
    \E t, u \in Threads :
        /\ Returned(t) /\ Returned(u)
        /\ call[t].op = "LogOnce" /\ call[u].op = "LogSuccessNew"
        /\ call[t].event = call[u].event
        /\ Len(out[u]) = 1 /\ out[t] = << >>
        /\ onceEmitted[call[t].event] = 1

\* C2: a once-only call ends without emitting only if a record for its own
\* event name was emitted before; calls with other event names, however many,
\* never suppress it: otherwise it emits the record of its own event.
C2_DistinctEventsIndependent ==
    \A t \in Threads :
        (call[t].op \in OnceOps /\ pc[t] \in {"unlock", "done"}) =>
            IF out[t] = << >>
            THEN /\ onceEmitted[call[t].event] >= 1
                 /\ call[t].event \in loggedEvents
            ELSE /\ Len(out[t]) = 1
                 /\ out[t][1].fields.event = call[t].event

\* the first call with E2 has emitted while E1 is already in the map
C2_Witness ==
    \E t \in Threads :
        /\ pc[t] = "mark"
        /\ call[t].event = "E2"
        /\ loggedEvents = {"E1"}
        /\ Len(out[t]) = 1
        /\ onceEmitted["E2"] = 1

\* C3: a debug-gated call (LogRelationalStart, LogRelationalEnd and the struct
\* variants) that read debugMode = false emits nothing and returns nil; one
\* that read true emits exactly one Info record and returns its entry, also
\* when its event name is in loggedEvents.
C3_DebugGated ==
    \A t \in Threads :
        (Returned(t) /\ call[t].op \in GatedOps) =>
            IF flagRead[t]
            THEN /\ Len(out[t]) = 1
                 /\ out[t][1].level = "info"
                 /\ ret[t] = "entry"
            ELSE /\ out[t] = << >>
                 /\ ret[t] = "nil"

\* a gated call read true and logged, its event name already de-duplicated
\* and the flag switched off since
C3_Witness ==
    \E t \in Threads :
        /\ Returned(t)
        /\ call[t].op = "LogRelationalEndNew"
        /\ flagRead[t] /\ ~debugMode
        /\ call[t].event \in loggedEvents
        /\ Len(out[t]) = 1

C5_NilErrorSafe ==
    /\ ~crashed
    /\ \A t \in Threads :
        (call[t].op \in ErrorOps /\ call[t].err.isNil) =>
            /\ Returned(t)
            /\ Len(out[t]) = 1
            /\ out[t][1].fields.error = ""

\* C6: mergeFields leaves in the base map the union of both maps: the
\* extension's value under every key of the extension (reserved keys
\* included), the base's value under every other key; a nil extension leaves
\* the base as it was.
C6_MergeIsUnion ==
    /\ Len(merged) >= 1 =>
        /\ DOMAIN merged[1] = (DOMAIN mBase) \cup (DOMAIN mExt)
        /\ \A k \in DOMAIN mExt : merged[1][k] = mExt[k]
        /\ \A k \in (DOMAIN mBase) \ (DOMAIN mExt) : merged[1][k] = mBase[k]
        /\ mExt = NilMap => merged[1] = mBase
    /\ Len(merged) >= 2 => merged[2] = merged[1]

\* both maps hold "status", with different values
C6_Witness ==
    /\ Len(merged) = 2
    /\ "status" \in (DOMAIN mBase) \cap (DOMAIN mExt)
    /\ mBase["status"] # mExt["status"]
    /\ merged[1]["status"] = mExt["status"]
    /\ (DOMAIN mBase) \ (DOMAIN mExt) # {}

\* C7: on the response stream of either responder the Content-Type header is
\* set first, the status code given is written second and the body third; a
\* call that returns has done all three, and RespondWithError's body is
\* {"error": {code, reason, message, error_code}} of its arguments.
C7_HeaderStatusBody ==
    /\ Len(stream) <= 3
    /\ Len(stream) >= 1 =>
          stream[1] = [ev |-> "Header.Set", key |-> "Content-Type", value |-> "application/json"]
    /\ Len(stream) >= 2 => stream[2] = [ev |-> "WriteHeader", code |-> req.statusCode]
    /\ Len(stream) >= 3 => stream[3].ev = "Write"
    /\ hpc = "done" => Len(stream) = 3
    /\ (hpc = "done" /\ req.op = "RespondWithError") =>
          stream[3].body = [error |-> [code |-> req.statusCode, reason |-> req.err.msg,
                                       message |-> req.message, error_code |-> req.traceID]]

\* the 404 of the specification's example
C7_Witness ==
    /\ hpc = "done"
    /\ req.op = "RespondWithError"
    /\ stream = << [ev |-> "Header.Set", key |-> "Content-Type", value |-> "application/json"],
                   [ev |-> "WriteHeader", code |-> 404],
                   [ev |-> "Write", body |-> [error |-> [code |-> 404, reason |-> "missing",
                        message |-> "not found", error_code |-> "abc123"]]] >>

\* C8: loggedEvents only grows, one event name at a time, by the insert of a
\* once-only call that holds the mutex and has emitted its record; every
\* name in it has had a record emitted; no other step changes it.
C8_DedupMonotonic ==
    /\ [](\A e \in loggedEvents : onceEmitted[e] >= 1)
    /\ [][/\ loggedEvents \subseteq loggedEvents'
          /\ loggedEvents' # loggedEvents =>
                \E t \in Threads :
                    /\ call[t].op \in OnceOps
                    /\ pc[t] = "mark" /\ pc'[t] = "unlock"
                    /\ mutex = t
                    /\ Len(out[t]) = 1
                    /\ call[t].event \notin loggedEvents
                    /\ loggedEvents' = loggedEvents \cup {call[t].event}]_vars

\* both names are in the map, and the start/end, error and SetDebugMode
\* operations have run since
C8_Witness ==
    /\ loggedEvents = Events
    /\ debugMode
    /\ \E t \in Threads :
        /\ Returned(t)
        /\ call[t].op = "LogRelationalStart"
        /\ Len(out[t]) = 1

\* C9: at most one goroutine is past mutex.Lock() at a time, the mutex is
\* held exactly while one is, and every once-only call, waiting or running,
\* eventually returns.
C9_LockReleased ==
    /\ [](Cardinality({t \in Threads : pc[t] \in Critical}) <= 1)
    /\ [](\A t \in Threads : pc[t] \in Critical <=> mutex = t)
    /\ \A t \in Threads : (pc[t] \in OncePcs) ~> Returned(t)

\* one goroutine is between the check and the insert while another waits
C9_Witness ==
    \E t, u \in Threads :
        /\ pc[t] = "mark"
        /\ pc[u] = "lock"
        /\ call[u].event = call[t].event
        /\ mutex = t

\* C10: every emitted record carries each key and value of the caller's
\* extension map (additionalFields, or fields.Additional for the struct
\* variants), and the record LogOnce / LogOnceNew emits for a non-nil error
\* carries the error's message.
C10_ExtensionMerged ==
    \A t \in Threads :
        \A i \in 1 .. Len(out[t]) :
            /\ \A k \in DOMAIN call[t].fields :
                /\ k \in DOMAIN out[t][i].fields
                /\ out[t][i].fields[k] = call[t].fields[k]
            /\ (call[t].op \in {"LogOnce", "LogOnceNew"} /\ ~call[t].err.isNil) =>
                /\ "error" \in DOMAIN out[t][i].fields
                /\ out[t][i].fields["error"] = call[t].err.msg

====
